---- MODULE Spec2Model ----
(***************************************************************************)
(* A model of the tuavec e-commerce backend: the create-order workflow of  *)
(* routes/orders.js over the Product and Order collections, the order      *)
(* life-cycle commands, the OTP service of utils/helpers.js, the           *)
(* in-memory rate limiter and the guards of middleware/auth.js, the        *)
(* reviews router and the signup route of routes/auth.js.                  *)
(*                                                                         *)
(* Every `await` of a handler is a point where other requests may run, so  *)
(* a handler is a sequence of atomic steps, one per storage call.          *)
(***************************************************************************)
EXTENDS Integers, Sequences, FiniteSets, TLC

NULL == "null"

(***************************************************************************)
(* Bounds of the model.                                                    *)
(***************************************************************************)
\* concurrent create-order request contexts
NumReqs == 2
\* orders that may be persisted in one behaviour
MaxOrders == 2
\* line items of one request
MaxItems == 2
\* stock every product starts with
InitialStock == 5
\* last value Date.now() may take while orders are created
MaxNow == 2
\* values Math.random() may contribute to an order number
NumRandom == 2
\* entries a timeline may grow to
MaxTimeline == 3
\* orders of a behaviour that exercises the life-cycle commands
MaxLifecycleOrders == 1

Reqs == 1..NumReqs
ProductIds == {"p1", "p2"}
\* an id no Product document has
UnknownProduct == "p0"
Users == {"u1", "u2"}
Admin == "admin"
Quantities == {1, 3}

\* Product.price of the catalogue (no handler of the model changes it)
Price(p) == IF p = "p1" THEN 250 ELSE 40

\* Date.now().toString().substr(-8): the clock modulo 10^8 ms, here modulo TsSpan
TsSpan == 2

\* concurrent saveOTP calls
NumIssuers == 2
\* concurrent verifyOTP calls
NumVerifiers == 2
\* OTP documents created in one behaviour
MaxOtps == 2
\* last instant of the OTP clock
MaxOtpNow == 2
\* where the history of failed verify calls stops counting
MaxStreak == 4

\* create-review requests that can be in progress at once
NumSubmitters == 2
\* moderate-review requests that can be in progress at once
NumModerators == 2
\* reviews created in one behaviour
MaxReviews == 3
\* create-review and moderate-review requests in progress at once, together
MaxReviewCalls == 2

\* concurrent signup requests
NumSignups == 2
\* concurrent status-update requests
NumUpdaters == 2

\* last instant of the rate limiter's clock
MaxRlNow == 4
\* largest count of requests the rate limiter's store or the history holds
MaxCount == 6

\* req.ip of the clients
ClientKeys == {"10.0.0.1", "10.0.0.2"}
Limiters == {"login", "otp", "order"}

\* middleware/auth.js lines 167-183: windowMs of the three limiters, in units of 5 min
WindowMs(limiter) ==
    CASE limiter = "login" -> 3
      [] limiter = "otp" -> 1
      [] limiter = "order" -> 12

\* middleware/auth.js lines 167-183: max of the three limiters
MaxRequests(limiter) ==
    CASE limiter = "login" -> 5
      [] limiter = "otp" -> 3
      [] limiter = "order" -> 10

Issuers == 1..NumIssuers
Verifiers == 1..NumVerifiers
Phones == {"01712345678"}
\* models/index.js line 253 also lists "reset"
Purposes == {"signup", "login"}
\* the strings generateOTP may return
Codes == {"123456", "654321"}

\* helpers.js line 38: 5 * 60 * 1000 ms, in units of 5 min
OtpTtl == 1
\* helpers.js line 70: attempts > 3
MaxAttempts == 3

VARIABLES
    stock,        \* Product.stock, by product id
    salesCount,   \* Product.salesCount, by product id
    orders,       \* the Order collection, in insertion order
    req,          \* the create-order request contexts
    lastOp,       \* the last life-cycle command and the response it got
    otps,         \* the OTP collection
    otpSeq,       \* OTP documents created so far (the next one's _id)
    iss,          \* the saveOTP calls in progress
    ver,          \* the verifyOTP calls in progress
    lastVerify,   \* the last verifyOTP call that returned, its result, and (history)
                  \* the run of failed calls against one live OTP that it ends
    otpNow,       \* Date.now() of the OTP service, in units of 5 min
    rateLimitStore, \* the Map of middleware/auth.js, by client key
    rlNow,        \* Date.now() of the rate limiter, in units of 5 min
    window,       \* history: per limiter and key, the fixed window its requests define
    decision,     \* the limiter, key and outcome of the last rate-limited request
    reviews,      \* the Review collection, in insertion order (the position is the _id)
    rating,       \* Product.rating, by product id, in tenths
    reviewCount,  \* Product.reviewCount, by product id
    sub,          \* the create-review requests in progress
    mod,          \* the moderate-review requests in progress
    lastReviewOp, \* the last review request that was answered, and its response
    users,        \* the User collection: the accounts created by signup
    su,           \* the signup requests
    upd,          \* the status-update requests in progress
    lastRoute     \* the last request through a guarded route, and its response

orderVars == <<stock, salesCount, orders, req, lastOp>>
otpVars == <<otps, otpSeq, iss, ver, lastVerify, otpNow>>
rlVars == <<rateLimitStore, rlNow, window, decision>>
revVars == <<reviews, rating, reviewCount, sub, mod, lastReviewOp>>
signupVars == <<users, su>>
routeVars == <<upd, lastRoute>>

(***************************************************************************)
(* Pure helpers.                                                           *)
(***************************************************************************)
RECURSIVE SumSeq(_)
SumSeq(s) == IF s = <<>> THEN 0 ELSE Head(s) + SumSeq(Tail(s))

Max(a, b) == IF a >= b THEN a ELSE b

\* helpers.js calculateShipping: flat rate by region, default 100, plus 20
\* for every unit beyond the third
ShippingRate(region) ==
    CASE region = "Dhaka" -> 60
      [] region = "Chittagong" -> 100
      [] region = "Sylhet" -> 120
      [] region = "Rajshahi" -> 120
      [] region = "Khulna" -> 120
      [] region = "Barisal" -> 130
      [] region = "Rangpur" -> 130
      [] region = "Mymensingh" -> 100
      [] OTHER -> 100

calculateShipping(region, itemCount) ==
    ShippingRate(region) + Max(0, itemCount - 3) * 20

OrderTotalWithoutShipping(subtotal, shippingCost, discount) == subtotal - discount

\* orders.js line 73
OrderTotal(subtotal, shippingCost, discount) == subtotal + shippingCost - discount

\* orders.js line 41: the per-line stock check (true = reject)
InsufficientStock(productStock, quantity) == productStock < quantity

StockAfterIncByOne(productStock, quantity) == productStock - 1

\* orders.js line 103: the $inc applied to Product.stock
StockAfterInc(productStock, quantity) == productStock - quantity

SalesAfterIncByOne(sales, quantity) == sales + 1

\* orders.js line 103: the $inc applied to Product.salesCount
SalesAfterInc(sales, quantity) == sales + quantity

\* orders.js line 87
InitialPaymentStatus(paymentMethod) ==
    IF paymentMethod = "cod" THEN "unpaid" ELSE "pending"

\* models/index.js pre('save'): TUA-<last 8 digits of Date.now()>-<random>
generateOrderNumber(t, rnd) == <<t % TsSpan, rnd>>

NoUniqueIndex(os, num) == FALSE

\* models/index.js line 127: the unique index on orderNumber refuses the insert
DuplicateOrderNumber(os, num) == \E k \in 1..Len(os) : os[k].orderNumber = num

IdleReq == [pc |-> "idle", user |-> NULL, items |-> <<>>, region |-> NULL,
            paymentMethod |-> NULL, i |-> 0, subtotal |-> 0, orderItems |-> <<>>,
            order |-> 0, resp |-> NULL]

InFlight == {r \in Reqs : req[r].pc \notin {"idle", "done"}}

Submitters == 1..NumSubmitters
Moderators == 1..NumModerators

IdleSubmit == [pc |-> "idle", user |-> NULL, product |-> NULL, rating |-> 0,
               newRating |-> 0, newCount |-> 0]

IdleModerate == [pc |-> "idle", review |-> 0, status |-> NULL, product |-> NULL,
                 newRating |-> 0, newCount |-> 0]

IdleIssue == [pc |-> "idle", phone |-> NULL, purpose |-> NULL, otp |-> NULL,
              expiresAt |-> 0]

IdleVerify == [pc |-> "idle", phone |-> NULL, otp |-> NULL, purpose |-> NULL,
               doc |-> 0, attempts |-> 0]

Signups == 1..NumSignups
Updaters == 1..NumUpdaters

IdleSignup == [pc |-> "idle", phone |-> NULL, email |-> NULL, otp |-> NULL,
               doc |-> 0, attempts |-> 0]

\* the Authorization header of a request: absent, or a bearer token that
\* jwt.verify rejects, finds expired, or decodes to a user id
NoToken == [kind |-> "missing", userId |-> NULL]

\* order is the position of the loaded order, loaded and courier are the
\* status and the courier of the document as it was loaded
IdleUpdate == [pc |-> "idle", token |-> NoToken, num |-> <<>>, status |-> NULL,
               actor |-> NULL, courierName |-> NULL, order |-> 0, loaded |-> NULL,
               courier |-> [name |-> NULL, trackingNumber |-> NULL]]

NoRoute == [route |-> NULL, token |-> NoToken, num |-> <<>>, resp |-> NULL]

NoVerify == [phone |-> NULL, otp |-> NULL, purpose |-> NULL, result |-> NULL,
             seen |-> 0, run |-> 0]

InitState ==
    /\ stock = [p \in ProductIds |-> InitialStock]
    /\ salesCount = [p \in ProductIds |-> 0]
    /\ orders = <<>>
    /\ req = [r \in Reqs |-> IdleReq]
    /\ lastOp = [op |-> NULL, num |-> <<>>, arg |-> NULL, resp |-> NULL]
    /\ otps = {}
    /\ otpSeq = 0
    /\ iss = [c \in Issuers |-> IdleIssue]
    /\ ver = [v \in Verifiers |-> IdleVerify]
    /\ lastVerify = NoVerify
    /\ otpNow = 0
    /\ rateLimitStore = <<>>
    /\ rlNow = 0
    /\ decision = NULL
    /\ reviews = <<>>
    /\ rating = [p \in ProductIds |-> 0]
    /\ reviewCount = [p \in ProductIds |-> 0]
    /\ sub = [c \in Submitters |-> IdleSubmit]
    /\ mod = [m \in Moderators |-> IdleModerate]
    /\ lastReviewOp = [op |-> NULL, resp |-> NULL]
    /\ users = {}
    /\ su = [s \in Signups |-> IdleSignup]
    /\ upd = [u \in Updaters |-> IdleUpdate]
    /\ lastRoute = NoRoute

\* history: window follows no limiter
Init ==
    /\ InitState
    /\ window = [limiter |-> NULL, key |-> NULL, start |-> 0, count |-> 0]

\* history: window follows one limiter and one client from the start
InitRateLimit ==
    /\ InitState
    /\ \E l \in Limiters, k \in ClientKeys :
           window = [limiter |-> l, key |-> k, start |-> 0, count |-> 0]

(***************************************************************************)
(* POST /api/orders (routes/orders.js lines 15-126).                       *)
(***************************************************************************)
PaymentMethods == {"cod", "bkash", "nagad", "rocket", "card"}

\* orders.js line 20: the presence checks on the request body
MissingRequiredFields(body) ==
    \/ body.customer = NULL
    \/ body.shippingAddress = NULL
    \/ body.items = <<>>
    \/ body.paymentMethod = NULL

RespondWithoutReturn(r, resp) == [req EXCEPT ![r].resp = resp, ![r].pc = "create"]

LoopEndsAtFirstItem(r) == TRUE

\* lines 31 and 98: for (const item of items) has reached the last line item
LoopEnds(r) == req[r].i = Len(req[r].items)

\* lines 21-24, 35-38, 42-45: return res.status(...).json(...), which ends the
\* request; i stays as history, the line item the loop was at
Respond(r, resp) ==
    [req EXCEPT ![r] = [IdleReq EXCEPT !.pc = "done", !.resp = resp, !.i = req[r].i]]

\* lines 17-29: the handler up to its first await
StartCreate(r, user, body) ==
    /\ req[r].pc \in {"idle", "done"}
    \* request contexts are interchangeable: the lowest free one is taken
    /\ \A r2 \in 1..(r - 1) : r2 \in InFlight
    /\ Len(orders) + Cardinality(InFlight) < MaxOrders
    /\ IF MissingRequiredFields(body)
       THEN req' = Respond(r, "400 Missing required fields")
       ELSE req' = [req EXCEPT ![r] =
                [IdleReq EXCEPT !.pc = "check", !.user = user, !.items = body.items,
                                !.region = body.shippingAddress,
                                !.paymentMethod = body.paymentMethod, !.i = 1]]
    /\ UNCHANGED <<stock, salesCount, orders, lastOp, otpVars, rlVars,
                   revVars, signupVars, routeVars>>

\* lines 31-61: one iteration of the validation loop (one Product.findById)
CheckItem(r) ==
    /\ req[r].pc = "check"
    /\ LET item == req[r].items[req[r].i]
           p == item.productId
           q == item.quantity
       IN IF p \notin ProductIds
          THEN req' = Respond(r, "404 Product not found")
          ELSE IF InsufficientStock(stock[p], q)
          THEN req' = Respond(r, "400 Insufficient stock")
          ELSE req' = [req EXCEPT
                  ![r].subtotal = @ + Price(p) * q,
                  ![r].orderItems = Append(@, [product |-> p, price |-> Price(p),
                                               quantity |-> q, subtotal |-> Price(p) * q]),
                  ![r].i = IF LoopEnds(r) THEN 0 ELSE @ + 1,
                  ![r].pc = IF LoopEnds(r) THEN "create" ELSE "check"]
    /\ UNCHANGED <<stock, salesCount, orders, lastOp, otpVars, rlVars,
                   revVars, signupVars, routeVars>>

ItemCount(items) == SumSeq([k \in 1..Len(items) |-> items[k].quantity])

\* lines 76-96: the document handed to Order.create, with the schema defaults
NewOrder(r, num) ==
    LET shippingCost == calculateShipping(req[r].region, ItemCount(req[r].items))
        discount == 0
    IN [orderNumber |-> num,
        user |-> req[r].user,
        items |-> req[r].orderItems,
        subtotal |-> req[r].subtotal,
        shippingCost |-> shippingCost,
        discount |-> discount,
        total |-> OrderTotal(req[r].subtotal, shippingCost, discount),
        paymentMethod |-> req[r].paymentMethod,
        paymentStatus |-> InitialPaymentStatus(req[r].paymentMethod),
        paymentDetails |-> [transactionId |-> NULL, senderNumber |-> NULL,
                           amount |-> NULL, verifiedBy |-> NULL,
                           verifiedAt |-> NULL],
        status |-> "pending",
        timeline |-> <<[status |-> "pending", updatedBy |-> NULL]>>,
        courier |-> [name |-> NULL, trackingNumber |-> NULL],
        deliveredAt |-> NULL,
        returnRequest |-> [requested |-> FALSE, reason |-> NULL, status |-> NULL]]

\* lines 63-96: pricing, then Order.create (schema validation, the pre('save')
\* hook that assigns the order number, the unique index); a failed insert
\* throws into the catch of line 119. t is the value of Date.now(), rnd that
\* of Math.random()
CreateOrder(r, t, rnd) ==
    /\ req[r].pc = "create"
    /\ LET num == generateOrderNumber(t, rnd)
       IN IF \/ req[r].paymentMethod \notin PaymentMethods
             \/ DuplicateOrderNumber(orders, num)
          THEN /\ req' = Respond(r, "500 Failed to create order")
               /\ orders' = orders
          ELSE /\ orders' = Append(orders, NewOrder(r, num))
               /\ req' = [req EXCEPT ![r].pc = "inc", ![r].i = 1,
                                     ![r].order = Len(orders) + 1]
    /\ UNCHANGED <<stock, salesCount, lastOp, otpVars, rlVars, revVars, signupVars, routeVars>>

\* lines 98-106: one iteration of the stock loop (one Product.findByIdAndUpdate)
IncStock(r) ==
    /\ req[r].pc = "inc"
    /\ LET item == req[r].items[req[r].i]
           p == item.productId
           q == item.quantity
       IN /\ stock' = [stock EXCEPT ![p] = StockAfterInc(@, q)]
          /\ salesCount' = [salesCount EXCEPT ![p] = SalesAfterInc(@, q)]
    /\ req' = [req EXCEPT
            ![r].i = IF LoopEnds(r) THEN 0 ELSE @ + 1,
            ![r].pc = IF LoopEnds(r) THEN "notify" ELSE "inc"]
    /\ UNCHANGED <<orders, lastOp, otpVars, rlVars, revVars, signupVars, routeVars>>

\* lines 108-117: the notifications (sendSMS and sendEmail swallow their own
\* errors) and the 201 response
Notify(r) ==
    /\ req[r].pc = "notify"
    /\ req' = [req EXCEPT ![r] = [IdleReq EXCEPT !.pc = "done", !.resp = "201 Created",
                                                 !.order = req[r].order]]
    /\ UNCHANGED <<stock, salesCount, orders, lastOp, otpVars, rlVars,
                   revVars, signupVars, routeVars>>

(***************************************************************************)
(* Request bodies.                                                         *)
(***************************************************************************)
Items(products, quantities) ==
    {[productId |-> p, quantity |-> q] : p \in products, q \in quantities}

ItemLists(items) ==
    UNION {[1..n -> items] : n \in 1..MaxItems}

Body(customer, shippingAddress, items, paymentMethod) ==
    [customer |-> customer, shippingAddress |-> shippingAddress,
     items |-> items, paymentMethod |-> paymentMethod]

\* the bodies of the concurrent create-order requests
Item(p, q) == [productId |-> p, quantity |-> q]

\* item lists with an unknown product or a quantity that is not positive
OddItemLists ==
    {<<Item(UnknownProduct, 1)>>, <<Item("p1", 1), Item(UnknownProduct, 1)>>,
     <<Item("p1", -1)>>, <<Item("p2", 1), Item("p1", 0)>>}

CreateBodies ==
    {Body("c", "Dhaka", l, "cod") :
        l \in ItemLists(Items(ProductIds, Quantities)) \cup OddItemLists}
    \cup {Body(NULL, "Dhaka", <<[productId |-> "p1", quantity |-> 1]>>, "cod"),
          Body("c", NULL, <<[productId |-> "p1", quantity |-> 1]>>, "cod"),
          Body("c", "Dhaka", <<>>, "cod"),
          Body("c", "Dhaka", <<[productId |-> "p1", quantity |-> 1]>>, NULL)}

NextOrders ==
    \/ \E r \in Reqs, b \in CreateBodies : StartCreate(r, NULL, b)
    \/ \E r \in Reqs : CheckItem(r)
    \/ \E r \in Reqs, t \in 0..MaxNow, rnd \in 0..(NumRandom - 1) : CreateOrder(r, t, rnd)
    \/ \E r \in Reqs : IncStock(r)
    \/ \E r \in Reqs : Notify(r)

(***************************************************************************)
(* The life-cycle commands on a persisted order (routes/orders.js).        *)
(***************************************************************************)
StatusesWithArchived ==
    {"pending", "confirmed", "processing", "shipped", "delivered", "cancelled",
     "returned", "archived"}

\* line 235: validStatuses
ValidStatuses ==
    {"pending", "confirmed", "processing", "shipped", "delivered", "cancelled", "returned"}

\* Order.findOne({ orderNumber }): the position of the order, 0 when there is none
FindOrder(num) ==
    IF \E k \in 1..Len(orders) : orders[k].orderNumber = num
    THEN CHOOSE k \in 1..Len(orders) : orders[k].orderNumber = num
    ELSE 0

\* history: the last life-cycle command (its route, the order number it names,
\* its target status or its caller) and the response it got
Op(op, num, arg, resp) == [op |-> op, num |-> num, arg |-> arg, resp |-> resp]

\* lines 264-271: courier fields given in the body overwrite the stored ones
MergeCourier(courier, courierName, trackingNumber) ==
    IF courierName = NULL /\ trackingNumber = NULL
    THEN courier
    ELSE [name |-> IF courierName # NULL THEN courierName ELSE courier.name,
          trackingNumber |-> IF trackingNumber # NULL THEN trackingNumber
                             ELSE courier.trackingNumber]

TimelineReplaced(timeline, status, actor) ==
    <<[status |-> status, updatedBy |-> actor]>>

\* lines 256-262: order.timeline.push({status, message, timestamp, updatedBy})
TimelineAfterUpdate(timeline, status, actor) ==
    Append(timeline, [status |-> status, updatedBy |-> actor])

\* PATCH /:orderNumber/status, lines 231-296 (the caller has passed
\* authenticate and adminOnly)
UpdateStatus(num, status, actor, courierName, trackingNumber) ==
    LET k == FindOrder(num)
    IN /\ IF status \notin ValidStatuses
          THEN /\ lastOp' = Op("status", num, status, "400 Invalid status")
               /\ orders' = orders
          ELSE IF k = 0
          THEN /\ lastOp' = Op("status", num, status, "404 Order not found")
               /\ orders' = orders
          ELSE /\ Len(orders[k].timeline) < MaxTimeline
               /\ orders' = [orders EXCEPT ![k] = [@ EXCEPT
                      !.status = status,
                      !.timeline = TimelineAfterUpdate(@, status, actor),
                      !.courier = MergeCourier(@, courierName, trackingNumber),
                      !.deliveredAt = IF status = "delivered" THEN "stamped" ELSE @]]
               /\ lastOp' = Op("status", num, status, "200 OK")
       /\ UNCHANGED <<stock, salesCount, req, otpVars, rlVars, revVars, signupVars, routeVars>>

PaidOnlyWhenPending(previous) == IF previous = "pending" THEN "paid" ELSE previous

\* line 320: order.paymentStatus = 'paid'
PaymentStatusAfterVerify(previous) == "paid"

\* PATCH /:orderNumber/verify-payment, lines 299-337
VerifyPaymentHandler(num, actor, transactionId, senderNumber, amount) ==
    LET k == FindOrder(num)
    IN IF k = 0
       THEN /\ lastOp' = Op("verify-payment", num, actor, "404 Order not found")
            /\ orders' = orders
       ELSE /\ orders' = [orders EXCEPT ![k] = [@ EXCEPT
                   !.paymentDetails = [transactionId |-> transactionId,
                                       senderNumber |-> senderNumber,
                                       amount |-> amount,
                                       verifiedBy |-> actor,
                                       verifiedAt |-> "stamped"],
                   !.paymentStatus = PaymentStatusAfterVerify(@)]]
            /\ lastOp' = Op("verify-payment", num, actor, "200 OK")

\* the handler for a caller that has passed authenticate and adminOnly
VerifyPayment(num, actor, transactionId, senderNumber, amount) ==
    /\ VerifyPaymentHandler(num, actor, transactionId, senderNumber, amount)
    /\ UNCHANGED <<stock, salesCount, req, otpVars, rlVars, revVars, signupVars, routeVars>>

OwnedByAnyone(order, user) == TRUE

\* lines 344-347: the user part of the filter of Order.findOne
OwnedBy(order, user) == order.user = user

\* POST /:orderNumber/return, lines 340-383 (user is the authenticated caller)
RequestReturn(num, user, reason) ==
    LET k == FindOrder(num)
    IN /\ IF k = 0 \/ (k # 0 /\ ~OwnedBy(orders[k], user))
          THEN /\ lastOp' = Op("return", num, user, "404 Order not found")
               /\ orders' = orders
          ELSE IF orders[k].status # "delivered"
          THEN /\ lastOp' = Op("return", num, user, "400 Only delivered orders can be returned")
               /\ orders' = orders
          ELSE /\ orders' = [orders EXCEPT ![k].returnRequest =
                      [requested |-> TRUE, reason |-> reason, status |-> "pending"]]
               /\ lastOp' = Op("return", num, user, "200 OK")
       /\ UNCHANGED <<stock, salesCount, req, otpVars, rlVars, revVars, signupVars, routeVars>>

\* the bodies of the create-order requests of the life-cycle runs
LifecycleBodies ==
    {Body("c", region, l, pm) :
        region \in {"Dhaka", "Bogura"},
        l \in {<<Item("p1", 1)>>, <<Item("p1", 3), Item("p2", 3)>>},
        pm \in {"cod", "bkash"}}

\* the target statuses the status-update commands carry: the seven of the
\* schema and one that is none of them
TargetStatuses ==
    {"pending", "confirmed", "processing", "shipped", "delivered", "cancelled",
     "returned", "archived"}

\* the courier names the status-update commands carry (NULL: none given)
CourierNames == {NULL, "Pathao"}

\* the order numbers the commands name: the one CreateOrder(1, 0, 0) assigns
\* and one no order has
LifecycleNumbers == {generateOrderNumber(0, 0), generateOrderNumber(0, 1)}

NextLifecycle ==
    \/ \E u \in {"u1", NULL}, b \in LifecycleBodies :
          Len(orders) < MaxLifecycleOrders /\ StartCreate(1, u, b)
    \/ CheckItem(1)
    \/ CreateOrder(1, 0, 0)
    \/ IncStock(1)
    \/ Notify(1)
    \/ \E num \in LifecycleNumbers, st \in TargetStatuses, cn \in CourierNames :
          UpdateStatus(num, st, Admin, cn, NULL)
    \/ \E num \in LifecycleNumbers : VerifyPayment(num, Admin, "tx1", "01712345678", "310")
    \/ \E num \in LifecycleNumbers, u \in Users : RequestReturn(num, u, "damaged")

(***************************************************************************)
(* The OTP service (utils/helpers.js saveOTP and verifyOTP over the OTP    *)
(* collection of models/index.js).                                         *)
(***************************************************************************)
OtpMatchesAnyPurpose(rec, phone, otp, purpose, t) ==
    /\ rec.phone = phone
    /\ rec.otp = otp
    /\ ~rec.verified
    /\ rec.expiresAt > t

OtpMatchesAtExpiry(rec, phone, otp, purpose, t) ==
    /\ rec.phone = phone
    /\ rec.otp = otp
    /\ rec.purpose = purpose
    /\ ~rec.verified
    /\ rec.expiresAt >= t

\* helpers.js lines 55-61: the filter of OTP.findOne
OtpMatches(rec, phone, otp, purpose, t) ==
    /\ rec.phone = phone
    /\ rec.otp = otp
    /\ rec.purpose = purpose
    /\ ~rec.verified
    /\ rec.expiresAt > t

\* an OTP document that can still be verified for (phone, purpose)
Live(rec, phone, purpose, t) ==
    /\ rec.phone = phone
    /\ rec.purpose = purpose
    /\ ~rec.verified
    /\ rec.expiresAt > t

IssuesInFlight == {c \in Issuers : iss[c].pc = "create"}

VerifiesInFlight == {v \in Verifiers : ver[v].pc = "found"}

\* history: the length of the run of failed verify calls against the live OTP
\* of (phone, purpose) that one more failed call ends
RunAfterFailure(phone, purpose) ==
    IF ~\E rec \in otps : Live(rec, phone, purpose, otpNow)
    THEN 0
    ELSE IF /\ lastVerify.phone = phone
            /\ lastVerify.purpose = purpose
            /\ lastVerify.result \in {"Invalid or expired OTP", "Too many attempts"}
    THEN (IF lastVerify.run < MaxStreak THEN lastVerify.run + 1 ELSE lastVerify.run)
    ELSE 1

Returned(phone, otp, purpose, result) ==
    [phone |-> phone, otp |-> otp, purpose |-> purpose, result |-> result,
     \* history: the OTP documents created before the call returned
     seen |-> otpSeq,
     run |-> IF result \in {"Invalid or expired OTP", "Too many attempts"}
             THEN RunAfterFailure(phone, purpose)
             ELSE 0]

\* saveOTP lines 37-41: generateOTP, the expiry, and OTP.deleteMany
IssueDelete(c, phone, purpose, otp) ==
    /\ iss[c].pc = "idle"
    \* call contexts are interchangeable: the lowest free one is taken
    /\ \A c2 \in 1..(c - 1) : c2 \in IssuesInFlight
    /\ otpSeq + Cardinality(IssuesInFlight) < MaxOtps
    /\ iss' = [iss EXCEPT ![c] = [pc |-> "create", phone |-> phone, purpose |-> purpose,
                                  otp |-> otp, expiresAt |-> otpNow + OtpTtl]]
    /\ otps' = {rec \in otps : ~(rec.phone = phone /\ rec.purpose = purpose)}
    /\ UNCHANGED <<otpSeq, ver, lastVerify, otpNow, orderVars, rlVars,
                   revVars, signupVars, routeVars>>

\* saveOTP lines 43-51: OTP.create, with the schema defaults
IssueCreate(c) ==
    /\ iss[c].pc = "create"
    /\ otps' = otps \cup {[id |-> otpSeq + 1, phone |-> iss[c].phone, otp |-> iss[c].otp,
                           purpose |-> iss[c].purpose, expiresAt |-> iss[c].expiresAt,
                           verified |-> FALSE, attempts |-> 0]}
    /\ otpSeq' = otpSeq + 1
    /\ iss' = [iss EXCEPT ![c] = IdleIssue]
    \* history: a run of failed calls ends when its OTP is replaced
    /\ lastVerify' = IF lastVerify.phone = iss[c].phone /\ lastVerify.purpose = iss[c].purpose
                     THEN [lastVerify EXCEPT !.run = 0]
                     ELSE lastVerify
    /\ UNCHANGED <<ver, otpNow, orderVars, rlVars, revVars, signupVars, routeVars>>

\* verifyOTP lines 55-69: OTP.findOne, the miss, and the increment of the
\* loaded document's attempts
VerifyFind(v, phone, otp, purpose) ==
    /\ ver[v].pc = "idle"
    /\ \A v2 \in 1..(v - 1) : v2 \in VerifiesInFlight
    /\ LET matches == {rec \in otps : OtpMatches(rec, phone, otp, purpose, otpNow)}
       IN IF matches = {}
          THEN /\ lastVerify' = Returned(phone, otp, purpose, "Invalid or expired OTP")
               /\ ver' = ver
          ELSE /\ \E rec \in matches :
                    ver' = [ver EXCEPT ![v] =
                      [pc |-> "found", phone |-> phone, otp |-> otp, purpose |-> purpose,
                       doc |-> rec.id, attempts |-> rec.attempts + 1]]
               /\ UNCHANGED lastVerify
    /\ UNCHANGED <<otps, otpSeq, iss, otpNow, orderVars, rlVars, revVars, signupVars, routeVars>>

\* verifyOTP lines 70-79: otpDoc.deleteOne() when the loaded count exceeds 3,
\* otherwise otpDoc.save() of attempts and verified. A save of a document that
\* was deleted meanwhile either reports an error or writes nothing, by the
\* version of the driver.
VerifyWrite(v) ==
    /\ ver[v].pc = "found"
    /\ LET call == ver[v]
       IN IF call.attempts > MaxAttempts
          THEN /\ otps' = {rec \in otps : rec.id # call.doc}
               /\ lastVerify' = Returned(call.phone, call.otp, call.purpose,
                                         "Too many attempts")
          ELSE IF \E rec \in otps : rec.id = call.doc
          THEN /\ otps' = {IF rec.id = call.doc
                           THEN [rec EXCEPT !.attempts = call.attempts, !.verified = TRUE]
                           ELSE rec : rec \in otps}
               /\ lastVerify' = Returned(call.phone, call.otp, call.purpose, "success")
          ELSE /\ otps' = otps
               /\ \E res \in {"success", "500 Failed to verify OTP"} :
                     lastVerify' = Returned(call.phone, call.otp, call.purpose, res)
    /\ ver' = [ver EXCEPT ![v] = IdleVerify]
    /\ UNCHANGED <<otpSeq, iss, otpNow, orderVars, rlVars, revVars, signupVars, routeVars>>

\* models/index.js line 261: the TTL index removes an expired document
Purge ==
    /\ \E rec \in otps :
          /\ rec.expiresAt <= otpNow
          /\ otps' = otps \ {rec}
    /\ UNCHANGED <<otpSeq, iss, ver, lastVerify, otpNow, orderVars, rlVars,
                   revVars, signupVars, routeVars>>

OtpTick ==
    /\ otpNow < MaxOtpNow
    /\ otpNow' = otpNow + 1
    /\ UNCHANGED <<otps, otpSeq, iss, ver, lastVerify, orderVars, rlVars,
                   revVars, signupVars, routeVars>>

NextOtp ==
    \/ \E c \in Issuers, ph \in Phones, pu \in Purposes, otp \in Codes :
          IssueDelete(c, ph, pu, otp)
    \/ \E c \in Issuers : IssueCreate(c)
    \/ \E v \in Verifiers, ph \in Phones, pu \in Purposes, otp \in Codes :
          VerifyFind(v, ph, otp, pu)
    \/ \E v \in Verifiers : VerifyWrite(v)
    \/ Purge
    \/ OtpTick

(***************************************************************************)
(* The rate limiter (middleware/auth.js lines 105-183). The middleware runs *)
(* without an await, so one request is one step. rateLimitStore is a        *)
(* function whose domain is the keys the Map holds.                         *)
(***************************************************************************)
\* lines 123 and 140: the entry's window is over
Expired(t, resetTime, windowMs) == t - resetTime > windowMs

\* line 149: the request is refused
OverLimit(count, max) == count > max

\* lines 121-126: the entries the clean-up loop of a limiter keeps
AfterCleanup(store, t, windowMs) ==
    [k \in {j \in DOMAIN store : ~Expired(t, store[j].resetTime, windowMs)} |-> store[k]]

\* lines 128-146: the entry of the key after the request was counted
CountedEntry(store, key, t, windowMs) ==
    LET rateData == IF key \in DOMAIN store THEN store[key]
                    ELSE [count |-> 0, resetTime |-> t]
        fresh == IF Expired(t, rateData.resetTime, windowMs)
                 THEN [count |-> 0, resetTime |-> t]
                 ELSE rateData
    IN [fresh EXCEPT !.count = @ + 1]

\* history: window follows one limiter and one client, and holds the fixed
\* window that the requests of that client through that limiter define
WindowAfter(w, limiter, key, t) ==
    IF w.limiter # limiter \/ w.key # key THEN w
    ELSE IF w.count = 0 \/ Expired(t, w.start, WindowMs(limiter))
         THEN [w EXCEPT !.start = t, !.count = 1]
         ELSE [w EXCEPT !.count = @ + 1]

\* the middleware rateLimit(options) returns, lines 117-163
RateLimit(limiter, key) ==
    LET windowMs == WindowMs(limiter)
        max == MaxRequests(limiter)
        kept == AfterCleanup(rateLimitStore, rlNow, windowMs)
        rateData == CountedEntry(kept, key, rlNow, windowMs)
        w == WindowAfter(window, limiter, key, rlNow)
    IN /\ rateData.count <= MaxCount
       /\ w.count <= MaxCount
       /\ rateLimitStore' = [k \in DOMAIN kept \cup {key} |->
                                IF k = key THEN rateData ELSE kept[k]]
       /\ window' = w
       \* history: the answer to the last request that window follows
       /\ decision' = IF w = window THEN decision
                      ELSE IF OverLimit(rateData.count, max) THEN "429" ELSE "next"
       /\ UNCHANGED <<rlNow, orderVars, otpVars, revVars, signupVars, routeVars>>

RlTick ==
    /\ rlNow < MaxRlNow
    /\ rlNow' = rlNow + 1
    /\ UNCHANGED <<rateLimitStore, window, decision, orderVars, otpVars,
                   revVars, signupVars, routeVars>>

NextRateLimit ==
    \/ \E l \in Limiters, k \in ClientKeys : RateLimit(l, k)
    \/ RlTick

(***************************************************************************)
(* The reviews route (unnamed/part_000) over the Review collection and the  *)
(* rating and reviewCount of the products. Each handler is one step per     *)
(* awaited storage call.                                                    *)
(***************************************************************************)
SubmitsInFlight == {c \in Submitters : sub[c].pc # "idle"}

ModerationsInFlight == {m \in Moderators : mod[m].pc # "idle"}

ReviewCallsInFlight == Cardinality(SubmitsInFlight) + Cardinality(ModerationsInFlight)

\* res.status(...).json(...) of a create-review request, which ends it
SubmitDone(c, resp) ==
    /\ sub' = [sub EXCEPT ![c] = IdleSubmit]
    /\ lastReviewOp' = [op |-> "submit", resp |-> resp]

\* res.status(...).json(...) of a moderate-review request, which ends it
ModerateDone(m, resp) ==
    /\ mod' = [mod EXCEPT ![m] = IdleModerate]
    /\ lastReviewOp' = [op |-> "moderate", resp |-> resp]

\* part_000 line 12: !productId || !rating || !comment (a rating that is
\* absent or 0 is falsy)
MissingReviewFields(body) ==
    body.productId = NULL \/ body.rating = 0 \/ body.comment = NULL

\* part_000 line 19
RatingOutOfRange(r) == r < 1 \/ r > 5

\* part_000 lines 27-30: Review.findOne({product, user}) finds a review
AlreadyReviewed(user, product) ==
    \E k \in 1..Len(reviews) : reviews[k].user = user /\ reviews[k].product = product

\* part_000 lines 253-260: the $match of the aggregation, the positions of
\* the approved reviews of a product
Approved(product) ==
    {k \in 1..Len(reviews) : reviews[k].product = product /\ reviews[k].status = "approved"}

\* part_000 line 258: the sum that $avg divides by the count
RatingSum(ks) == SumSeq([k \in 1..Len(reviews) |-> IF k \in ks THEN reviews[k].rating ELSE 0])

\* part_000 line 265: Math.round(averageRating * 10) / 10, in tenths
\* (Math.round rounds a half up)
RoundedMean(sum, count) == (20 * sum + count) \div (2 * count)

\* part_000 lines 253-261: what the aggregation returns for the matched reviews
Aggregated(ks) ==
    [newRating |-> IF ks = {} THEN 0 ELSE RoundedMean(RatingSum(ks), Cardinality(ks)),
     newCount |-> Cardinality(ks)]

\* POST /, part_000 lines 8-37: validation and the look-up of an earlier
\* review of the caller for the product (no orderId is given, so the
\* verified-purchase look-up of lines 40-49 is skipped)
SubmitFind(c, user, body) ==
    /\ sub[c].pc = "idle"
    \* request contexts are interchangeable: the lowest free one is taken
    /\ \A c2 \in 1..(c - 1) : c2 \in SubmitsInFlight
    /\ Len(reviews) + Cardinality({c2 \in Submitters : sub[c2].pc = "create"}) < MaxReviews
    /\ ReviewCallsInFlight < MaxReviewCalls
    /\ IF MissingReviewFields(body)
       THEN SubmitDone(c, "400 Product, rating, and comment are required")
       ELSE IF RatingOutOfRange(body.rating)
       THEN SubmitDone(c, "400 Rating must be between 1 and 5")
       ELSE IF AlreadyReviewed(user, body.productId)
       THEN SubmitDone(c, "400 You have already reviewed this product")
       ELSE /\ sub' = [sub EXCEPT ![c] =
                  [IdleSubmit EXCEPT !.pc = "create", !.user = user,
                                     !.product = body.productId, !.rating = body.rating]]
            /\ UNCHANGED lastReviewOp
    /\ UNCHANGED <<reviews, rating, reviewCount, mod, orderVars, otpVars,
                   rlVars, signupVars, routeVars>>

\* part_000 lines 52-62: Review.create with status pending
SubmitCreate(c) ==
    /\ sub[c].pc = "create"
    /\ reviews' = Append(reviews, [user |-> sub[c].user, product |-> sub[c].product,
                                   rating |-> sub[c].rating, status |-> "pending"])
    /\ sub' = [sub EXCEPT ![c].pc = "aggregate"]
    /\ UNCHANGED <<rating, reviewCount, mod, lastReviewOp, orderVars,
                   otpVars, rlVars, signupVars, routeVars>>

\* part_000 line 65 and lines 253-261: the aggregation of updateProductRating.
\* The product id is the string of the request body here, and whether $match
\* compares it equal to the stored ids is left to the driver: casts says
\* whether it does. Nothing matched means no write (line 263).
SubmitAggregate(c, casts) ==
    /\ sub[c].pc = "aggregate"
    /\ LET ks == IF casts THEN Approved(sub[c].product) ELSE {}
           agg == Aggregated(ks)
       IN IF ks = {}
          THEN SubmitDone(c, "201 Created")
          ELSE /\ sub' = [sub EXCEPT ![c] =
                     [@ EXCEPT !.pc = "write", !.newRating = agg.newRating,
                               !.newCount = agg.newCount]]
               /\ UNCHANGED lastReviewOp
    /\ UNCHANGED <<reviews, rating, reviewCount, mod, orderVars, otpVars,
                   rlVars, signupVars, routeVars>>

\* part_000 lines 263-268 and 67-71: Product.findByIdAndUpdate, then the 201
SubmitWrite(c) ==
    /\ sub[c].pc = "write"
    /\ rating' = [rating EXCEPT ![sub[c].product] = sub[c].newRating]
    /\ reviewCount' = [reviewCount EXCEPT ![sub[c].product] = sub[c].newCount]
    /\ SubmitDone(c, "201 Created")
    /\ UNCHANGED <<reviews, mod, orderVars, otpVars, rlVars, signupVars, routeVars>>

ModerationStatuses == {"approved", "rejected"}

\* PATCH /:reviewId/moderate, part_000 lines 132-160 (the caller has passed
\* authenticate and adminOnly): the check of the status and
\* Review.findByIdAndUpdate
ModerateHandler(m, id, status) ==
    /\ mod[m].pc = "idle"
    /\ \A m2 \in 1..(m - 1) : m2 \in ModerationsInFlight
    /\ ReviewCallsInFlight < MaxReviewCalls
    /\ IF status \notin ModerationStatuses
       THEN /\ ModerateDone(m, "400 Invalid status")
            /\ reviews' = reviews
       ELSE IF id \notin 1..Len(reviews)
       THEN /\ ModerateDone(m, "404 Review not found")
            /\ reviews' = reviews
       ELSE /\ reviews' = [reviews EXCEPT ![id].status = status]
            /\ IF status = "approved"
               THEN /\ mod' = [mod EXCEPT ![m] =
                          [IdleModerate EXCEPT !.pc = "aggregate", !.review = id,
                                               !.status = status,
                                               !.product = reviews[id].product]]
                    /\ UNCHANGED lastReviewOp
               ELSE ModerateDone(m, "200 OK")

\* the first step of the handler for a caller that has passed authenticate
\* and adminOnly
ModerateUpdate(m, id, status) ==
    /\ ModerateHandler(m, id, status)
    /\ UNCHANGED <<rating, reviewCount, sub, orderVars, otpVars, rlVars, signupVars, routeVars>>

\* part_000 lines 162-165 and 253-261: the aggregation of updateProductRating
\* over the approved reviews of review.product
ModerateAggregate(m) ==
    /\ mod[m].pc = "aggregate"
    /\ LET ks == Approved(mod[m].product)
           agg == Aggregated(ks)
       IN IF ks = {}
          THEN ModerateDone(m, "200 OK")
          ELSE /\ mod' = [mod EXCEPT ![m] =
                     [@ EXCEPT !.pc = "write", !.newRating = agg.newRating,
                               !.newCount = agg.newCount]]
               /\ UNCHANGED lastReviewOp
    /\ UNCHANGED <<reviews, rating, reviewCount, sub, orderVars, otpVars,
                   rlVars, signupVars, routeVars>>

\* part_000 lines 263-268 and 167-171: Product.findByIdAndUpdate, then the 200
ModerateWrite(m) ==
    /\ mod[m].pc = "write"
    /\ rating' = [rating EXCEPT ![mod[m].product] = mod[m].newRating]
    /\ reviewCount' = [reviewCount EXCEPT ![mod[m].product] = mod[m].newCount]
    /\ ModerateDone(m, "200 OK")
    /\ UNCHANGED <<reviews, sub, orderVars, otpVars, rlVars, signupVars, routeVars>>

ReviewBody(productId, r, comment) ==
    [productId |-> productId, rating |-> r, comment |-> comment]

\* the create-review requests, as <<caller, body>>: two users review one
\* product, one of them another product too, and one sends bodies that fail
\* validation
Submissions ==
    {<<"u1", ReviewBody("p1", 5, "good")>>, <<"u2", ReviewBody("p1", 4, "good")>>,
     <<"u1", ReviewBody("p2", 5, "good")>>,
     <<"u2", ReviewBody("p1", 0, "good")>>, <<"u2", ReviewBody("p1", 6, "good")>>,
     <<"u2", ReviewBody(NULL, 5, "good")>>, <<"u2", ReviewBody("p1", 5, NULL)>>}

NextReviews ==
    \/ \E c \in Submitters, ub \in Submissions : SubmitFind(c, ub[1], ub[2])
    \/ \E c \in Submitters : SubmitCreate(c)
    \/ \E c \in Submitters, casts \in BOOLEAN : SubmitAggregate(c, casts)
    \/ \E c \in Submitters : SubmitWrite(c)
    \/ \E m \in Moderators, id \in 1..(MaxReviews + 1),
          st \in ModerationStatuses \cup {"pending"} : ModerateUpdate(m, id, st)
    \/ \E m \in Moderators : ModerateAggregate(m)
    \/ \E m \in Moderators : ModerateWrite(m)

(***************************************************************************)
(* POST /auth/signup (routes/auth.js lines 117-206): validation, verifyOTP *)
(* of utils/helpers.js under the purpose 'signup', User.findOne and        *)
(* User.create, one step per storage call.                                 *)
(***************************************************************************)
\* the phone numbers as clients write them
RawPhones == {"+8801712345678", "01712345678", "01812345678", "12345"}

\* helpers.js lines 209-216: the digits of the phone, without a leading 88
sanitizePhone(phone) ==
    CASE phone = "+8801712345678" -> "01712345678"
      [] phone = "01712345678" -> "01712345678"
      [] phone = "01812345678" -> "01812345678"
      [] phone = "12345" -> "12345"

\* helpers.js lines 198-202: /^(\+88)?01[3-9]\d{8}$/
isValidPhone(phone) == phone \in {"+8801712345678", "01712345678", "01812345678"}

\* helpers.js lines 204-207: /^[^\s@]+@[^\s@]+\.[^\s@]+$/
isValidEmail(email) == email \in {"a@x.bd", "b@x.bd"}

\* auth.js line 122
MissingSignupFields(body) ==
    body.name = NULL \/ body.email = NULL \/ body.phone = NULL \/ body.password = NULL

\* auth.js line 129: password.length < 6
PasswordTooShort(password) == password = "12345"

SignupsInFlight == {s \in Signups : su[s].pc # "idle"}

\* history: the route, the token and the order number of a request, and
\* the response it got
Route(route, token, num, resp) ==
    [route |-> route, token |-> token, num |-> num, resp |-> resp]

\* return res.status(...).json(...): the request is over
SignupRespond(s, resp) ==
    /\ su' = [su EXCEPT ![s] = IdleSignup]
    /\ lastRoute' = Route("signup", NoToken, <<>>, resp)

\* the request goes on to its next storage call
SignupGoesOn(s, ctx) ==
    /\ su' = [su EXCEPT ![s] = ctx]
    /\ UNCHANGED lastRoute

LoginPurpose == "login"

\* auth.js line 153: the purpose signup hands to verifyOTP
SignupPurpose == "signup"

\* auth.js lines 117-156 and helpers.js lines 55-69: the validation of the
\* body, then verifyOTP up to its OTP.findOne
SignupFind(s, body) ==
    /\ su[s].pc = "idle"
    \* request contexts are interchangeable: the lowest free one is taken
    /\ \A s2 \in 1..(s - 1) : s2 \in SignupsInFlight
    /\ IF MissingSignupFields(body)
       THEN SignupRespond(s, "400 All fields are required") /\ UNCHANGED lastVerify
       ELSE IF PasswordTooShort(body.password)
       THEN SignupRespond(s, "400 Password must be at least 6 characters")
            /\ UNCHANGED lastVerify
       ELSE IF ~isValidEmail(body.email)
       THEN SignupRespond(s, "400 Invalid email format") /\ UNCHANGED lastVerify
       ELSE IF ~isValidPhone(sanitizePhone(body.phone))
       THEN SignupRespond(s, "400 Invalid phone number format") /\ UNCHANGED lastVerify
       ELSE LET phone == sanitizePhone(body.phone)
                matches == {rec \in otps :
                               OtpMatches(rec, phone, body.otp, SignupPurpose, otpNow)}
            IN IF matches = {}
               THEN /\ SignupRespond(s, "400 Invalid or expired OTP")
                    /\ lastVerify' = Returned(phone, body.otp, SignupPurpose,
                                              "Invalid or expired OTP")
               ELSE /\ \E rec \in matches :
                         SignupGoesOn(s,
                           [pc |-> "found", phone |-> phone, email |-> body.email,
                            otp |-> body.otp, doc |-> rec.id,
                            attempts |-> rec.attempts + 1])
                    /\ UNCHANGED lastVerify
    /\ UNCHANGED <<otps, otpSeq, iss, ver, otpNow, users, upd, orderVars, rlVars, revVars>>

\* helpers.js lines 70-79 and auth.js lines 154-156: the rest of verifyOTP
\* (deleteOne or save) and the 400 when it did not succeed; an error thrown
\* by the save ends in the catch of auth.js line 199
SignupVerifyWrite(s) ==
    /\ su[s].pc = "found"
    /\ LET call == su[s]
       IN IF call.attempts > MaxAttempts
          THEN /\ otps' = {rec \in otps : rec.id # call.doc}
               /\ lastVerify' = Returned(call.phone, call.otp, SignupPurpose,
                                         "Too many attempts")
               /\ SignupRespond(s, "400 Too many attempts")
          ELSE IF \E rec \in otps : rec.id = call.doc
          THEN /\ otps' = {IF rec.id = call.doc
                           THEN [rec EXCEPT !.attempts = call.attempts, !.verified = TRUE]
                           ELSE rec : rec \in otps}
               /\ lastVerify' = Returned(call.phone, call.otp, SignupPurpose, "success")
               /\ SignupGoesOn(s, [call EXCEPT !.pc = "finduser"])
          ELSE /\ otps' = otps
               /\ \/ /\ lastVerify' = Returned(call.phone, call.otp, SignupPurpose, "success")
                     /\ SignupGoesOn(s, [call EXCEPT !.pc = "finduser"])
                  \/ /\ lastVerify' = Returned(call.phone, call.otp, SignupPurpose,
                                               "500 Failed to verify OTP")
                     /\ SignupRespond(s, "500 Registration failed")
    /\ UNCHANGED <<otpSeq, iss, ver, otpNow, users, upd, orderVars, rlVars, revVars>>

\* models/index.js lines 6-7: an account with this email or this phone exists
Registered(email, phone) == \E u \in users : u.email = email \/ u.phone = phone

\* auth.js lines 158-168: User.findOne({ $or: [{ email }, { phone }] })
SignupFindUser(s) ==
    /\ su[s].pc = "finduser"
    /\ IF Registered(su[s].email, su[s].phone)
       THEN SignupRespond(s, "400 Email or phone already registered")
       ELSE SignupGoesOn(s, [su[s] EXCEPT !.pc = "create"])
    /\ UNCHANGED <<users, upd, orderVars, otpVars, rlVars, revVars>>

\* auth.js lines 170-197: hashPassword, User.create and the 201; the unique
\* indexes on email and phone refuse a second account, which ends in the
\* catch of line 199. otp is history: the OTP document the request verified
SignupCreate(s) ==
    /\ su[s].pc = "create"
    /\ IF Registered(su[s].email, su[s].phone)
       THEN /\ SignupRespond(s, "500 Registration failed")
            /\ users' = users
       ELSE /\ users' = users \cup {[email |-> su[s].email, phone |-> su[s].phone,
                                     phoneVerified |-> TRUE, role |-> "customer",
                                     otp |-> su[s].doc]}
            /\ SignupRespond(s, "201 Created")
    /\ UNCHANGED <<upd, orderVars, otpVars, rlVars, revVars>>

SignupBody(name, email, phone, password, otp) ==
    [name |-> name, email |-> email, phone |-> phone, password |-> password, otp |-> otp]

\* the bodies of the signup requests
SignupBodies ==
    {SignupBody("n", "a@x.bd", "+8801712345678", "secret1", "123456"),
     SignupBody("n", "b@x.bd", "01712345678", "secret1", "123456"),
     SignupBody("n", "a@x.bd", "+8801712345678", "secret1", "654321"),
     SignupBody("n", "a@x.bd", "01812345678", "secret1", "123456"),
     SignupBody(NULL, "a@x.bd", "01712345678", "secret1", "123456"),
     SignupBody("n", "a@x.bd", "01712345678", "12345", "123456"),
     SignupBody("n", "a-x.bd", "01712345678", "secret1", "123456"),
     SignupBody("n", "a@x.bd", "12345", "secret1", "123456")}

\* the code generateOTP returns in the signup runs (signup bodies carry it
\* or another one)
IssuedCode == "123456"

\* send-otp, verify-otp and signup requests; the send-otp requests run one
\* at a time
NextSignup ==
    \/ \E ph \in Phones, pu \in Purposes : IssueDelete(1, ph, pu, IssuedCode)
    \/ IssueCreate(1)
    \/ \E ph \in Phones : VerifyFind(1, ph, IssuedCode, SignupPurpose)
    \/ VerifyWrite(1)
    \/ \E s \in Signups, b \in SignupBodies : SignupFind(s, b)
    \/ \E s \in Signups : SignupVerifyWrite(s)
    \/ \E s \in Signups : SignupFindUser(s)
    \/ \E s \in Signups : SignupCreate(s)
    \/ Purge
    \/ OtpTick

(***************************************************************************)
(* The guarded routes: authenticate, optionalAuth and adminOnly of         *)
(* middleware/auth.js in front of the handlers of routes/orders.js and of  *)
(* the reviews router. The status update is two steps, the load of the     *)
(* order and its save.                                                     *)
(***************************************************************************)
\* the User documents and their roles (models/index.js line 11)
ExistingUsers == Users \cup {Admin}

Role(user) == IF user = Admin THEN "admin" ELSE "customer"

\* a user id no User document has
DeletedUser == "u0"

Token(kind, userId) == [kind |-> kind, userId |-> userId]

\* the Authorization headers of the requests
Tokens ==
    {NoToken, Token("invalid", NULL), Token("expired", Admin), Token("valid", DeletedUser)}
    \cup {Token("valid", u) : u \in ExistingUsers}

\* middleware/auth.js lines 7-55: the 401 of authenticate (NULL: next()) and
\* the user it attaches to the request
authenticate(token) ==
    CASE token.kind = "missing" -> [resp |-> "401 Authentication required", user |-> NULL]
      [] token.kind = "invalid" -> [resp |-> "401 Invalid token", user |-> NULL]
      [] token.kind = "expired" -> [resp |-> "401 Token expired", user |-> NULL]
      [] token.kind = "valid" ->
           IF token.userId \notin ExistingUsers
           THEN [resp |-> "401 User not found", user |-> NULL]
           ELSE [resp |-> NULL, user |-> token.userId]

\* middleware/auth.js lines 58-77: the user optionalAuth attaches (NULL: the
\* request goes on as a guest)
optionalAuth(token) ==
    IF token.kind = "valid" /\ token.userId \in ExistingUsers THEN token.userId ELSE NULL

AnyRole(user) == FALSE

\* middleware/auth.js line 89: req.user.role !== 'admin'
NotAdmin(user) == Role(user) # "admin"

\* middleware/auth.js lines 80-103: the response of adminOnly (NULL: next())
adminOnly(user) ==
    IF user = NULL THEN "401 Authentication required"
    ELSE IF NotAdmin(user) THEN "403 Admin access required"
    ELSE NULL

\* authenticate, adminOnly: the response of the guards (NULL: the handler
\* runs) and the user of the request
AdminGuard(token) ==
    LET a == authenticate(token)
    IN IF a.resp # NULL THEN a ELSE [resp |-> adminOnly(a.user), user |-> a.user]

UpdatesInFlight == {u \in Updaters : upd[u].pc # "idle"}

\* PATCH /:orderNumber/status, orders.js lines 231-251: the guards, the check
\* of the target status and Order.findOne
StatusLoad(u, token, num, status, courierName) ==
    /\ upd[u].pc = "idle"
    \* request contexts are interchangeable: the lowest free one is taken
    /\ \A u2 \in 1..(u - 1) : u2 \in UpdatesInFlight
    /\ LET g == AdminGuard(token)
           k == FindOrder(num)
       IN IF g.resp # NULL
          THEN lastRoute' = Route("status", token, num, g.resp) /\ upd' = upd
          ELSE IF status \notin ValidStatuses
          THEN lastRoute' = Route("status", token, num, "400 Invalid status") /\ upd' = upd
          ELSE IF k = 0
          THEN lastRoute' = Route("status", token, num, "404 Order not found") /\ upd' = upd
          ELSE /\ Len(orders[k].timeline) + Cardinality(UpdatesInFlight) < MaxTimeline
               /\ upd' = [upd EXCEPT ![u] =
                     [pc |-> "loaded", token |-> token, num |-> num, status |-> status,
                      actor |-> g.user, courierName |-> courierName, order |-> k,
                      loaded |-> orders[k].status, courier |-> orders[k].courier]]
               /\ UNCHANGED lastRoute
    /\ UNCHANGED <<orderVars, otpVars, rlVars, revVars, signupVars>>

\* orders.js line 253 and save(): order.status = status marks the path
\* modified, and save() writes it, only when the value differs from the one
\* that was loaded
SavedStatus(current, loaded, target) == IF target = loaded THEN current ELSE target

\* orders.js lines 253-294: the assignments, order.save() (which sends the
\* modified paths), the SMS (sendSMS swallows its errors) and the 200
StatusSave(u) ==
    /\ upd[u].pc = "loaded"
    /\ LET call == upd[u]
           k == call.order
       IN /\ orders' = [orders EXCEPT ![k] = [@ EXCEPT
                 !.status = SavedStatus(@, call.loaded, call.status),
                 \* the entry pushed on the loaded timeline is sent as a $push,
                 \* which appends to the stored array
                 !.timeline = TimelineAfterUpdate(@, call.status, call.actor),
                 !.courier = IF call.courierName = NULL THEN @
                             ELSE MergeCourier(call.courier, call.courierName, NULL),
                 !.deliveredAt = IF call.status = "delivered" THEN "stamped" ELSE @]]
          /\ lastRoute' = Route("status", call.token, call.num, "200 OK")
    /\ upd' = [upd EXCEPT ![u] = IdleUpdate]
    /\ UNCHANGED <<stock, salesCount, req, lastOp, otpVars, rlVars, revVars, signupVars>>

\* PATCH /:orderNumber/verify-payment, orders.js lines 299-337, behind its
\* guards
VerifyPaymentRoute(token, num, transactionId, senderNumber, amount) ==
    /\ LET g == AdminGuard(token)
       IN IF g.resp # NULL
          THEN /\ lastRoute' = Route("verify-payment", token, num, g.resp)
               /\ UNCHANGED <<orders, lastOp>>
          ELSE /\ VerifyPaymentHandler(num, g.user, transactionId, senderNumber, amount)
               /\ lastRoute' = Route("verify-payment", token, num, lastOp'.resp)
    /\ UNCHANGED <<stock, salesCount, req, upd, otpVars, rlVars, revVars, signupVars>>

\* PATCH /:reviewId/moderate, part_000 lines 132-160, behind its guards
ModerateRoute(m, token, id, status) ==
    /\ LET g == AdminGuard(token)
       IN IF g.resp # NULL
          THEN /\ lastRoute' = Route("moderate", token, <<id>>, g.resp)
               /\ UNCHANGED <<reviews, mod, lastReviewOp>>
          ELSE /\ ModerateHandler(m, id, status)
               /\ lastRoute' = Route("moderate", token, <<id>>, "next")
    /\ UNCHANGED <<rating, reviewCount, sub, upd, orderVars, otpVars, rlVars, signupVars>>

\* orders.js line 174: the requester is logged in and is not the owner
NotTheOwner(order, user) == order.user # NULL /\ user # NULL /\ order.user # user

\* GET /:orderNumber, orders.js lines 161-193, behind optionalAuth; the 200
\* carries the order
GetOrder(token, num) ==
    /\ LET user == optionalAuth(token)
           k == FindOrder(num)
       IN lastRoute' = Route("get", token, num,
                             IF k = 0 THEN "404 Order not found"
                             ELSE IF NotTheOwner(orders[k], user) THEN "403 Unauthorized access"
                             ELSE "200 OK")
    /\ UNCHANGED <<upd, orderVars, otpVars, rlVars, revVars, signupVars>>

\* the create-order bodies of the runs through the guarded routes
RouteBodies == {Body("c", "Dhaka", <<Item("p1", 1)>>, "bkash")}

\* the target statuses of the concurrent status updates
RouteStatuses == {"pending", "confirmed", "archived"}

\* the admin routes under every kind of token: one order, one review, the
\* requests one at a time
NextAdmin ==
    \/ \E b \in RouteBodies : Len(orders) < MaxLifecycleOrders /\ StartCreate(1, NULL, b)
    \/ CheckItem(1)
    \/ CreateOrder(1, 0, 0)
    \/ IncStock(1)
    \/ Notify(1)
    \/ \E t \in Tokens, num \in LifecycleNumbers : StatusLoad(1, t, num, "confirmed", NULL)
    \/ StatusSave(1)
    \/ \E t \in Tokens, num \in LifecycleNumbers :
          VerifyPaymentRoute(t, num, "tx1", "01712345678", "310")
    \/ SubmitFind(1, "u1", ReviewBody("p1", 5, "good"))
    \/ SubmitCreate(1)
    \/ \E casts \in BOOLEAN : SubmitAggregate(1, casts)
    \/ SubmitWrite(1)
    \/ \E t \in Tokens, st \in ModerationStatuses : ModerateRoute(1, t, 1, st)
    \/ ModerateAggregate(1)
    \/ ModerateWrite(1)

\* an order of a user or of a guest, concurrent status updates by the admin,
\* and reads of the order under every kind of token
NextRoutes ==
    \/ \E user \in {"u1", NULL}, b \in RouteBodies :
          Len(orders) < MaxLifecycleOrders /\ StartCreate(1, user, b)
    \/ CheckItem(1)
    \/ CreateOrder(1, 0, 0)
    \/ IncStock(1)
    \/ Notify(1)
    \/ \E u \in Updaters, num \in LifecycleNumbers, st \in RouteStatuses,
          cn \in CourierNames : StatusLoad(u, Token("valid", Admin), num, st, cn)
    \/ \E u \in Updaters : StatusSave(u)
    \/ \E t \in Tokens, num \in LifecycleNumbers : GetOrder(t, num)

vars == <<orderVars, otpVars, rlVars, revVars, signupVars, routeVars>>

SpecOrders == Init /\ [][NextOrders]_vars

SpecLifecycle == Init /\ [][NextLifecycle]_vars

SpecOtp == Init /\ [][NextOtp]_vars

SpecRateLimit == InitRateLimit /\ [][NextRateLimit]_vars

SpecReviews == Init /\ [][NextReviews]_vars

SpecSignup == Init /\ [][NextSignup]_vars

SpecRoutes == Init /\ [][NextRoutes]_vars

SpecAdmin == Init /\ [][NextAdmin]_vars

(***************************************************************************)
(* Properties of the order workflow.                                       *)
(***************************************************************************)
\* the units of product p over the line items of one order
QuantityIn(items, p) ==
    SumSeq([k \in 1..Len(items) |-> IF items[k].product = p THEN items[k].quantity ELSE 0])

\* the units of product p over the line items of all persisted orders
OrderedQuantity(p) ==
    SumSeq([k \in 1..Len(orders) |-> QuantityIn(orders[k].items, p)])

\* C1: after any sequence of create-order requests, whatever their item
\* lists (several line items may name the same product), the stock of every
\* product is at least 0 in every reachable state.
C1_StockNeverNegative ==
    \A p \in ProductIds : stock[p] >= 0

\* C2: product p1 has stock 5 and two create-order requests, each for 3 units
\* of p1, run concurrently: whatever the interleaving of their storage calls,
\* at most one of them gets its order persisted and the stock of p1 never
\* falls below 2.
C2_ExactlyOneOfTwoSucceeds ==
    (/\ InitialStock = 5
     /\ \A r \in {1, 2} : req[r].pc \notin {"idle", "done"}
                          /\ req[r].items = <<Item("p1", 3)>>)
    => (Len(orders) <= 1 /\ stock["p1"] >= 2)

\* C3: when every create-order request has completed (accepted or rejected,
\* run one after the other or interleaved), the stock of every product is its
\* initial stock minus the units of it over the line items of all persisted
\* orders.
C3_StockConservation ==
    InFlight = {} =>
        \A p \in ProductIds : stock[p] = InitialStock - OrderedQuantity(p)

C3_Witness ==
    /\ InFlight = {}
    /\ Len(orders) = 2
    /\ \E r \in Reqs : req[r].resp = "400 Insufficient stock"
    /\ \A p \in ProductIds : stock[p] # InitialStock

\* the pricing fields of an order
Pricing(o) == <<o.subtotal, o.shippingCost, o.discount, o.total>>

C4_Exact(o) ==
    /\ o.total = o.subtotal + o.shippingCost - o.discount
    /\ o.subtotal = SumSeq([k \in 1..Len(o.items) |-> o.items[k].price * o.items[k].quantity])

\* C4: every persisted order has total = subtotal + shippingCost - discount,
\* with subtotal the sum of price * quantity over its line items, and no
\* later command (status update, payment verification, return request)
\* changes the subtotal, shippingCost, discount or total of a persisted order.
C4_TotalExact ==
    /\ [](\A k \in 1..Len(orders) : C4_Exact(orders[k]))
    /\ [][\A k \in 1..Len(orders) : Pricing(orders'[k]) = Pricing(orders[k])]_vars

C4_Witness ==
    \E k \in 1..Len(orders) :
        /\ Len(orders[k].timeline) = MaxTimeline
        /\ orders[k].paymentStatus = "paid"
        /\ orders[k].returnRequest.requested
        /\ orders[k].shippingCost > ShippingRate("Bogura")

LookupFound(v) == ver[v].pc = "idle" /\ ver'[v].pc = "found"

\* C6: an OTP is single-use: while a consumed (verified) document stands for
\* a phone, code and purpose, that is until a new OTP is issued for them, no
\* verify call with that phone, code and purpose gets past its lookup.
C6_SingleUse ==
    [][\A v \in Verifiers :
         LookupFound(v) =>
            ~\E rec \in otps : /\ rec.phone = ver'[v].phone
                               /\ rec.otp = ver'[v].otp
                               /\ rec.purpose = ver'[v].purpose
                               /\ rec.verified]_vars

\* C7: the fourth consecutive failed verify call against the same OTP
\* document returns the 'too many attempts' failure and deletes the document.
C7_FourthFailureDeletes ==
    lastVerify.run >= MaxAttempts + 1 =>
        /\ lastVerify.result = "Too many attempts"
        /\ ~\E rec \in otps : rec.phone = lastVerify.phone /\ rec.purpose = lastVerify.purpose

\* C8: once four verify calls with a wrong code have failed against the OTP
\* issued for a phone and purpose, a fifth verify call for that phone and
\* purpose finds no document, whatever code it carries.
C8_FifthVerifyFails ==
    [][\A v \in Verifiers :
         (/\ lastVerify.run >= MaxAttempts + 1
          /\ ver'[v].phone = lastVerify.phone
          /\ ver'[v].purpose = lastVerify.purpose)
         => ~LookupFound(v)]_vars

\* the purpose of the verify call a step belongs to, NULL for any other step
VerifyStepPurpose ==
    IF \E v \in Verifiers : ver'[v] # ver[v]
    THEN LET v == CHOOSE w \in Verifiers : ver'[w] # ver[w]
         IN IF ver[v].pc = "found" THEN ver[v].purpose ELSE ver'[v].purpose
    ELSE IF lastVerify' # lastVerify /\ iss' = iss
    THEN lastVerify'.purpose
    ELSE NULL

\* C9: a verify call under purpose q selects only a document issued for q
\* with the phone and code of the call, so an OTP issued for another purpose
\* never verifies under q, and every step of the call leaves the documents
\* issued for other purposes as they are.
C9_PurposeIsolation ==
    [][/\ \A v \in Verifiers :
            LookupFound(v) =>
               \E rec \in otps : /\ rec.id = ver'[v].doc
                                 /\ rec.phone = ver'[v].phone
                                 /\ rec.otp = ver'[v].otp
                                 /\ rec.purpose = ver'[v].purpose
       /\ VerifyStepPurpose # NULL =>
            \A rec \in otps : rec.purpose # VerifyStepPurpose => rec \in otps']_vars

\* a verify under one purpose has failed while the OTP issued before it for
\* the same phone and code under another purpose stays usable
C9_Witness ==
    /\ lastVerify.result = "Invalid or expired OTP"
    /\ \E rec \in otps : /\ rec.id <= lastVerify.seen
                         /\ rec.phone = lastVerify.phone
                         /\ rec.otp = lastVerify.otp
                         /\ rec.purpose # lastVerify.purpose
                         /\ Live(rec, rec.phone, rec.purpose, otpNow)
    /\ ~\E rec \in otps : rec.purpose = lastVerify.purpose


(***************************************************************************)
(* C10: a request from a key through a rate limiter (windowMs, max) is      *)
(* rejected with 429 exactly when the count of that key's requests through  *)
(* that limiter within its current window exceeds max: the first max        *)
(* requests of a window are admitted, the next ones rejected, and a request *)
(* later than windowMs after the window start is admitted with the count    *)
(* reset. window is the fixed window the requests themselves define.        *)
(***************************************************************************)
C10_RejectedExactlyWhenOverMax ==
    decision # NULL =>
        (decision = "429" <=> OverLimit(window.count, MaxRequests(window.limiter)))

(***************************************************************************)
(* Properties of the rate limiter, continued.                              *)
(***************************************************************************)
\* what a limiter reads for a client in the store: its counter and window start
EntryOf(store, key) ==
    IF key \in DOMAIN store THEN store[key] ELSE [count |-> 0, resetTime |-> -1]

\* C11: the login, OTP and order limiters are independent per client: a
\* request of a client through one limiter leaves the counter and window
\* start that another limiter holds for the same client as they are (it
\* neither counts against it, nor resets or deletes it).
C11_LimitersIndependent ==
    [][\A l \in Limiters \ {window.limiter} :
          RateLimit(l, window.key) =>
             EntryOf(rateLimitStore', window.key) = EntryOf(rateLimitStore, window.key)]_vars

(***************************************************************************)
(* Properties of the OTP service, continued.                               *)
(***************************************************************************)
\* C12: in every reachable state, also those reached by interleaving
\* concurrent saveOTP calls, at most one OTP document exists per phone and
\* purpose.
C12_OneOtpPerPhonePurpose ==
    \A r1, r2 \in otps :
        (r1.phone = r2.phone /\ r1.purpose = r2.purpose) => r1 = r2

(***************************************************************************)
(* Properties of the order workflow, continued.                            *)
(***************************************************************************)
\* the responses of a create-order request that failed validation, named an
\* unknown product or asked for more than the stock of a line item
Rejections ==
    {"400 Missing required fields", "404 Product not found", "400 Insufficient stock"}

\* the step is one of request r
StepOf(r) == req'[r] # req[r]

\* C13: a create-order request that fails validation, names an unknown
\* product or asks for more than the stock of one of its line items creates
\* no order and changes no product's stock or salesCount, also when earlier
\* line items passed their checks: every step of a request up to and
\* including its rejection writes nothing, the rejection ends the request,
\* and a request writes only after all its checks have passed.
C13_RejectedRequestWritesNothing ==
    [][\A r \in Reqs :
         StepOf(r) =>
            /\ (req'[r].pc = "check" \/ req'[r].resp \in Rejections) =>
                  /\ req[r].pc \in {"idle", "done", "check"}
                  /\ UNCHANGED <<stock, salesCount, orders>>
            /\ req'[r].resp \in Rejections =>
                  req'[r].pc = "done" /\ req'[r].order = 0
            /\ (stock' # stock \/ salesCount' # salesCount \/ orders' # orders) =>
                  req[r].pc \in {"create", "inc"} /\ req[r].resp = NULL]_vars

\* a request was rejected at its second line item for lack of stock, after
\* its first line item passed, and stock and salesCount are those the
\* persisted order left
C13_Witness ==
    /\ InFlight = {}
    /\ Len(orders) = 1
    /\ \E r \in Reqs : req[r].resp = "400 Insufficient stock" /\ req[r].i = 2
    /\ \A p \in ProductIds :
          /\ stock[p] = InitialStock - OrderedQuantity(p)
          /\ salesCount[p] = OrderedQuantity(p)

(***************************************************************************)
(* Properties of the life-cycle commands.                                  *)
(***************************************************************************)
\* the step is a life-cycle command of the given route (the commands leave
\* the create-order contexts alone, and lastOp' describes the command)
CommandStep(op) == lastOp'.op = op /\ req' = req

\* the fields of an order that a status update writes
StatusFields(o) == <<o.status, o.timeline, o.courier, o.deliveredAt>>

\* C14: a status-update command is accepted exactly when its target status
\* is one of pending, confirmed, processing, shipped, delivered, cancelled,
\* returned and the order exists, whatever the order's current status; an
\* accepted command sets the status to the target, and a command with any
\* other target status is rejected and leaves status, timeline, courier and
\* delivery timestamp of every order as they are.
C14_StatusUpdateAccepted ==
    [][CommandStep("status") =>
          LET k == FindOrder(lastOp'.num)
              st == lastOp'.arg
              allowed == st \in {"pending", "confirmed", "processing", "shipped",
                                 "delivered", "cancelled", "returned"}
          IN /\ lastOp'.resp = "200 OK" <=> (allowed /\ k # 0)
             /\ lastOp'.resp = "200 OK" => orders'[k].status = st
             /\ ~allowed =>
                   /\ lastOp'.resp = "400 Invalid status"
                   /\ \A j \in 1..Len(orders) :
                         StatusFields(orders'[j]) = StatusFields(orders[j])]_vars

\* an order went from pending straight to shipped, and the last command, with
\* a target status outside the seven, was rejected
C14_Witness ==
    /\ lastOp = Op("status", generateOrderNumber(0, 0), "archived", "400 Invalid status")
    /\ \E k \in 1..Len(orders) :
          /\ orders[k].status = "shipped"
          /\ Len(orders[k].timeline) = 2

\* the step is a status-update command that was accepted
AcceptedStatusUpdate == CommandStep("status") /\ lastOp'.resp = "200 OK"

\* C15: an order's timeline is append-only: an accepted status update appends
\* exactly one entry, carrying the new status and the acting admin, at the
\* end of the timeline of the order it names and leaves the earlier entries
\* as they are; no other step (rejected status update, payment verification,
\* return request) changes the timeline of a persisted order; and an order
\* is created with a timeline of one entry, so that its length is 1 plus the
\* number of accepted status updates.
C15_TimelineAppendOnly ==
    [][/\ Len(orders') >= Len(orders)
       /\ \A k \in 1..Len(orders) :
             IF AcceptedStatusUpdate /\ k = FindOrder(lastOp'.num)
             THEN orders'[k].timeline =
                     Append(orders[k].timeline,
                            [status |-> lastOp'.arg, updatedBy |-> Admin])
             ELSE orders'[k].timeline = orders[k].timeline
       /\ \A k \in (Len(orders) + 1)..Len(orders') :
             orders'[k].timeline = <<[status |-> "pending", updatedBy |-> NULL]>>]_vars

\* a timeline grew to its bound through accepted status updates, and a
\* rejected status update, a payment verification and a return request have
\* acted on the order too
C15_Witness ==
    /\ lastOp.op = "status" /\ lastOp.resp = "400 Invalid status"
    /\ \E k \in 1..Len(orders) :
          /\ Len(orders[k].timeline) = MaxTimeline
          /\ orders[k].timeline[2].status # orders[k].timeline[3].status
          /\ orders[k].paymentStatus = "paid"
          /\ orders[k].returnRequest.requested

\* C16: an order's status becomes 'returned' only from 'delivered', and only
\* after a return request has been recorded on the order.
C16_ReturnedOnlyFromDelivered ==
    [][\A k \in 1..Len(orders) :
          (orders'[k].status = "returned" /\ orders[k].status # "returned") =>
             (orders[k].status = "delivered" /\ orders[k].returnRequest.requested)]_vars

\* C17: a return request is accepted only for an order that belongs to the
\* requesting user and whose status is 'delivered'; an accepted request
\* records {requested: true, reason, status: pending} and leaves everything
\* else of the order (status, paymentStatus, timeline) and every product's
\* stock as they are; a rejected one leaves the orders as they are.
C17_ReturnRequest ==
    [][CommandStep("return") =>
          LET k == FindOrder(lastOp'.num)
              accepted == lastOp'.resp = "200 OK"
          IN /\ stock' = stock /\ salesCount' = salesCount
             /\ accepted <=> (/\ k # 0
                              /\ orders[k].user = lastOp'.arg
                              /\ orders[k].status = "delivered")
             /\ accepted =>
                   orders' = [orders EXCEPT ![k].returnRequest =
                                [requested |-> TRUE, reason |-> "damaged",
                                 status |-> "pending"]]
             /\ ~accepted => orders' = orders]_vars

\* a return request of the owner was accepted on a delivered order whose
\* payment had been verified
C17_Witness ==
    /\ lastOp.op = "return" /\ lastOp.resp = "200 OK" /\ lastOp.arg = "u1"
    /\ \E k \in 1..Len(orders) :
          /\ orders[k].user = "u1"
          /\ orders[k].status = "delivered"
          /\ orders[k].returnRequest = [requested |-> TRUE, reason |-> "damaged",
                                        status |-> "pending"]
          /\ orders[k].paymentStatus = "paid"

(***************************************************************************)
(* Properties of the reviews.                                              *)
(***************************************************************************)
\* C18: at most one review exists per user and product after any create-review
\* and moderate-review requests; a second submission of a user for a product
\* creates no review, whatever the status of the first.
C18_OneReviewPerUserProduct ==
    \A j, k \in 1..Len(reviews) :
        (reviews[j].user = reviews[k].user /\ reviews[j].product = reviews[k].product)
            => j = k

\* m's moderation to 'approved' gets its response in this step
ApprovalCompletes(m) ==
    mod[m].pc \in {"aggregate", "write"} /\ mod'[m].pc = "idle"

\* C19: when a moderation of a review to 'approved' has completed, the
\* product's rating is the mean, rounded to one decimal place, of the ratings
\* of all its reviews that are approved then (the one just approved
\* included), and reviewCount is their number.
C19_RatingIsMeanOfApproved ==
    [][\A m \in Moderators :
          ApprovalCompletes(m) =>
             LET p == mod[m].product
                 agg == Aggregated(Approved(p))
             IN /\ reviews' = reviews
                /\ rating'[p] = agg.newRating
                /\ reviewCount'[p] = agg.newCount]_vars

\* the order persisted by request r, with the order number the pre('save')
\* hook gave it
OrderPersisted(r) ==
    /\ req[r].order \in 1..Len(orders)
    /\ orders[req[r].order].orderNumber \in (0..(TsSpan - 1)) \X (0..(NumRandom - 1))
    /\ orders[req[r].order].items = req[r].orderItems
    /\ orders[req[r].order].total =
          req[r].subtotal + orders[req[r].order].shippingCost

\* C20: within one create-order request the steps occur in the order
\* validate, price, assign the order number, persist the order, decrement
\* stock, notify. Every line item is checked, in order, before the order is
\* priced and persisted; the order is persisted with its number and total in
\* the one step that leaves the checks; stock and salesCount are written only
\* by a request whose order is persisted, one line item after the other; and
\* the notifications and the 201 answer come only in the step after the
\* stock write of the last line item.
C20_StepsInOrder ==
    [][/\ \A r \in Reqs :
            StepOf(r) =>
               /\ req[r].pc = "check" /\ req'[r].pc = "check" =>
                     /\ req[r].i < Len(req[r].items) /\ req'[r].i = req[r].i + 1
                     /\ UNCHANGED <<stock, salesCount, orders>>
               /\ req'[r].pc = "create" =>
                     /\ req[r].pc = "check" /\ req[r].i = Len(req[r].items)
                     /\ Len(req'[r].orderItems) = Len(req[r].items)
                     /\ UNCHANGED <<stock, salesCount, orders>>
               /\ req[r].pc = "create" =>
                     /\ UNCHANGED <<stock, salesCount>>
                     /\ \/ req'[r].resp = "500 Failed to create order" /\ orders' = orders
                        \/ /\ req'[r].pc = "inc" /\ req'[r].i = 1
                           /\ Len(orders') = Len(orders) + 1
                           /\ OrderPersisted(r)'
               /\ req'[r].pc = "inc" =>
                     \/ req[r].pc = "create"
                     \/ /\ req[r].pc = "inc" /\ req[r].i < Len(req[r].items)
                        /\ req'[r].i = req[r].i + 1
               /\ req[r].pc = "inc" =>
                     /\ OrderPersisted(r) /\ orders' = orders
                     /\ req'[r].pc \in {"inc", "notify"}
               /\ req'[r].pc = "notify" =>
                     /\ req[r].pc = "inc" /\ req[r].i = Len(req[r].items)
               /\ req'[r].resp = "201 Created" =>
                     /\ req[r].pc = "notify"
                     /\ UNCHANGED <<stock, salesCount, orders>>
       /\ (stock' # stock \/ salesCount' # salesCount) =>
             \E r \in Reqs : StepOf(r) /\ req[r].pc = "inc" /\ OrderPersisted(r)
       /\ orders' # orders =>
             \E r \in Reqs : StepOf(r) /\ req[r].pc = "create"]_vars

\* a request of two line items has written the stock of both and is about to
\* notify: its order is persisted and both products' stock is decremented
C20_Witness ==
    \E r \in Reqs :
        /\ req[r].pc = "notify"
        /\ Len(req[r].items) = 2
        /\ OrderPersisted(r)
        /\ \A k \in 1..2 : stock[req[r].items[k].productId] < InitialStock

\* C21: every step of a create-order request raises a product's salesCount
\* by exactly the amount by which it lowers the product's stock, so for every
\* product stock + salesCount stays what it was initially, whatever the
\* requests and however their steps interleave.
C21_StockPlusSalesConstant ==
    [][\A p \in ProductIds :
          /\ salesCount'[p] - salesCount[p] = stock[p] - stock'[p]
          /\ stock'[p] + salesCount'[p] = InitialStock]_vars

\* two orders are persisted, every request has completed, and both products
\* were sold, one of them by three units or more
C21_Witness ==
    /\ InFlight = {}
    /\ Len(orders) = 2
    /\ \A p \in ProductIds : salesCount[p] > 0
    /\ \E p \in ProductIds : salesCount[p] >= 3

\* C30: every line item of every persisted order has a quantity of at least
\* 1 and every persisted order a subtotal of at least 0; no create-order
\* request raises a product's stock above, or lowers its salesCount below,
\* what it was (a request with a line item of zero or negative quantity
\* creates no order).
C30_QuantitiesPositive ==
    /\ \A k \in 1..Len(orders) :
          /\ \A j \in 1..Len(orders[k].items) : orders[k].items[j].quantity >= 1
          /\ orders[k].subtotal >= 0
    /\ \A p \in ProductIds : stock[p] <= InitialStock /\ salesCount[p] >= 0

(***************************************************************************)
(* Properties of the OTP service, continued.                               *)
(***************************************************************************)
\* the step is the OTP.findOne of a verify call that finds nothing
VerifyMisses == lastVerify' # lastVerify /\ ver' = ver /\ iss' = iss

\* C24: a verify call gets past its look-up only with a document of exactly
\* its phone, code and purpose that is unverified and expires strictly after
\* the current time, and only such a call can succeed; a call whose look-up
\* finds no such document (one made at or after the expiry, issue time + 5
\* min, in particular) fails with 'Invalid or expired OTP' and changes no
\* document.
C24_VerifyNeedsLiveRecord ==
    [][/\ \A v \in Verifiers :
             (ver[v].pc = "idle" /\ ver'[v].pc = "found") =>
                /\ \E rec \in otps :
                      /\ rec.id = ver'[v].doc
                      /\ rec.phone = ver'[v].phone /\ rec.otp = ver'[v].otp
                      /\ rec.purpose = ver'[v].purpose
                      /\ ~rec.verified /\ rec.expiresAt > otpNow
                /\ otps' = otps
       /\ (lastVerify' # lastVerify /\ lastVerify'.result = "success") =>
             \E v \in Verifiers :
                /\ ver[v].pc = "found" /\ ver'[v].pc = "idle"
                /\ <<ver[v].phone, ver[v].otp, ver[v].purpose>> =
                      <<lastVerify'.phone, lastVerify'.otp, lastVerify'.purpose>>
       /\ VerifyMisses =>
             /\ lastVerify'.result = "Invalid or expired OTP"
             /\ otps' = otps
             /\ ~\E rec \in otps :
                   /\ rec.phone = lastVerify'.phone /\ rec.otp = lastVerify'.otp
                   /\ rec.purpose = lastVerify'.purpose
                   /\ ~rec.verified /\ rec.expiresAt > otpNow
       /\ \A rec \in otps' \ otps :
             rec.id \notin {old.id : old \in otps} =>
                \E c \in Issuers : rec.expiresAt = iss[c].expiresAt /\ iss[c].pc = "create"]_vars

\* a verify call with the issued code, made at the very instant the document
\* expires, has failed; the document is still there, unverified, attempts 0
C24_Witness ==
    /\ lastVerify.result = "Invalid or expired OTP"
    /\ lastVerify.seen = otpSeq
    /\ \E rec \in otps :
          /\ rec.phone = lastVerify.phone /\ rec.otp = lastVerify.otp
          /\ rec.purpose = lastVerify.purpose
          /\ ~rec.verified /\ rec.attempts = 0
          /\ rec.expiresAt = otpNow

\* C25: the code of an OTP document is consumed at most once, also by verify
\* calls that run concurrently: no verify call returns success for a document
\* that another call has already marked verified.
C25_ConsumedAtMostOnce ==
    [][\A v \in Verifiers :
          (ver[v].pc = "found" /\ ver'[v].pc = "idle" /\ lastVerify'.result = "success") =>
             ~\E rec \in otps : rec.id = ver[v].doc /\ rec.verified]_vars

(***************************************************************************)
(* Properties of the life-cycle commands, continued.                       *)
(***************************************************************************)
\* C23: a verify-payment command on an existing order records the
\* transaction reference, the sender, the amount, the verifying actor and the
\* time, and sets paymentStatus to 'paid' whatever it was; it changes nothing
\* else of the order (status, timeline, totals) and no product's stock; for
\* an order number no order has it answers not-found and changes nothing.
C23_VerifyPayment ==
    [][CommandStep("verify-payment") =>
          LET k == FindOrder(lastOp'.num)
          IN /\ UNCHANGED <<stock, salesCount>>
             /\ IF k = 0
                THEN lastOp'.resp = "404 Order not found" /\ orders' = orders
                ELSE /\ lastOp'.resp = "200 OK"
                     /\ orders'[k].paymentStatus = "paid"
                     /\ orders'[k].paymentDetails =
                           [transactionId |-> "tx1", senderNumber |-> "01712345678",
                            amount |-> "310", verifiedBy |-> lastOp'.arg,
                            verifiedAt |-> "stamped"]
                     /\ orders' = [orders EXCEPT
                           ![k].paymentStatus = orders'[k].paymentStatus,
                           ![k].paymentDetails = orders'[k].paymentDetails]]_vars

\* the payment of an order paid on delivery (paymentStatus 'unpaid') that was
\* already shipped has been verified: the order is paid and still shipped
C23_Witness ==
    /\ lastOp = Op("verify-payment", generateOrderNumber(0, 0), Admin, "200 OK")
    /\ \E k \in 1..Len(orders) :
          /\ orders[k].paymentMethod = "cod"
          /\ orders[k].paymentStatus = "paid"
          /\ orders[k].paymentDetails.verifiedBy = Admin
          /\ orders[k].status = "shipped"
          /\ Len(orders[k].timeline) = 2

(***************************************************************************)
(* Properties of signup.                                                   *)
(***************************************************************************)
\* C28: signup creates an account only in a request whose verifyOTP found an
\* unverified, unexpired OTP document of purpose 'signup' with the sanitized
\* phone and the code of the request (so a code that verify-otp has consumed
\* is not found) and marked it verified; the account has the phone of that
\* document, and no OTP document yields a second account.
C28_SignupNeedsOtp ==
    [][/\ \A s \in Signups :
             /\ (su[s].pc = "idle" /\ su'[s].pc = "found") =>
                   \E rec \in otps :
                      /\ rec.id = su'[s].doc
                      /\ rec.purpose = "signup"
                      /\ rec.phone = su'[s].phone /\ rec.otp = su'[s].otp
                      /\ rec.phone \in {sanitizePhone(ph) : ph \in RawPhones}
                      /\ ~rec.verified /\ rec.expiresAt > otpNow
             /\ (su[s].pc # "finduser" /\ su'[s].pc = "finduser") =>
                   /\ su[s].pc = "found"
                   /\ \A rec \in otps' : rec.id = su[s].doc => rec.verified
             /\ (su[s].pc # "create" /\ su'[s].pc = "create") => su[s].pc = "finduser"
       /\ users' # users =>
             \E s \in Signups :
                /\ su[s].pc = "create" /\ su'[s].pc = "idle"
                /\ lastRoute' = Route("signup", NoToken, <<>>, "201 Created")
                /\ \A u \in users : u.otp # su[s].doc /\ u.phone # su[s].phone
                /\ \E u \in users' :
                      /\ users' = users \cup {u}
                      /\ u.phone = su[s].phone /\ u.otp = su[s].doc]_vars

\* two signup requests verified the same OTP document at once; the first
\* created the account, the second was refused, and the document is consumed
C28_Witness ==
    /\ SignupsInFlight = {}
    /\ lastRoute = Route("signup", NoToken, <<>>, "500 Registration failed")
    /\ \E u \in users :
          /\ users = {u}
          /\ u.phone = "01712345678"
          /\ \E rec \in otps : rec.id = u.otp /\ rec.verified /\ rec.purpose = "signup"

(***************************************************************************)
(* Properties of the guarded routes.                                       *)
(***************************************************************************)
AdminRoutes == {"status", "verify-payment", "moderate"}

\* the fields of the orders and of the reviews that the admin routes write
AdminWritten ==
    <<[k \in 1..Len(orders) |->
          <<orders[k].status, orders[k].timeline, orders[k].courier, orders[k].deliveredAt,
            orders[k].paymentStatus, orders[k].paymentDetails>>],
      [k \in 1..Len(reviews) |-> reviews[k].status]>>

\* the bearer token of the admin, valid and unexpired
AdminToken == [kind |-> "valid", userId |-> "admin"]

\* C22: status updates, payment verification and review moderation take
\* effect only for a request with a valid, unexpired token of an existing
\* user whose role is admin. A request with a missing, invalid or expired
\* token, or with the token of a user that no longer exists, gets 401, a
\* request of a user who is not an admin gets 403, and neither changes any
\* field of an order or of a review.
C22_AdminOnly ==
    [][/\ (lastRoute' # lastRoute /\ lastRoute'.route \in AdminRoutes) =>
             LET t == lastRoute'.token
                 resp == lastRoute'.resp
             IN /\ t.kind = "missing" => resp = "401 Authentication required"
                /\ t.kind = "invalid" => resp = "401 Invalid token"
                /\ t.kind = "expired" => resp = "401 Token expired"
                /\ (t.kind = "valid" /\ t.userId \notin {"u1", "u2", "admin"}) =>
                      resp = "401 User not found"
                /\ (t.kind = "valid" /\ t.userId \in {"u1", "u2"}) =>
                      resp = "403 Admin access required"
                /\ t # AdminToken =>
                      /\ AdminWritten' = AdminWritten
                      /\ upd' = upd /\ mod' = mod
                /\ t = AdminToken =>
                      resp \notin {"401 Authentication required", "401 Invalid token",
                                   "401 Token expired", "401 User not found",
                                   "403 Admin access required"}
       /\ (Len(orders') = Len(orders) /\ Len(reviews') = Len(reviews)
           /\ AdminWritten' # AdminWritten) =>
             \/ lastRoute'.route \in {"verify-payment", "moderate"}
                /\ lastRoute'.token = AdminToken
             \/ \E u \in Updaters :
                   /\ upd[u].pc = "loaded" /\ upd'[u].pc = "idle"
                   /\ upd[u].token = AdminToken
                   /\ lastRoute' = Route("status", AdminToken, upd[u].num, "200 OK")
       /\ \A u \in Updaters : upd'[u].pc = "loaded" => upd'[u].token = AdminToken
       /\ \A m \in Moderators : (mod[m].pc = "idle" /\ mod'[m].pc # "idle") =>
             lastRoute' = Route("moderate", AdminToken, <<mod'[m].review>>, "next")]_vars

\* the admin has confirmed the order, verified its payment and moderated the
\* review; the last request, a moderation with the token of a customer, got
\* 403
C22_Witness ==
    /\ lastRoute.route = "moderate"
    /\ lastRoute.token = [kind |-> "valid", userId |-> "u1"]
    /\ lastRoute.resp = "403 Admin access required"
    /\ Len(reviews) = 1 /\ reviews[1].status = "rejected"
    /\ Len(orders) = 1
    /\ orders[1].status = "confirmed" /\ orders[1].paymentStatus = "paid"
    /\ orders[1].paymentDetails.verifiedBy = "admin"

\* C26: whenever no status-update request is in flight, the status of every
\* order is the status of the last entry of its timeline: after creation
\* (pending, one 'pending' entry) and after any status updates, also two
\* updates of one order whose loads and saves interleave.
C26_StatusIsLastTimelineEntry ==
    UpdatesInFlight = {} =>
        \A k \in 1..Len(orders) :
            /\ Len(orders[k].timeline) >= 1
            /\ orders[k].status = orders[k].timeline[Len(orders[k].timeline)].status

\* C29: GET /:orderNumber returns an order owned by a user only to a requester
\* authenticated as that user; a requester authenticated as another user and
\* a requester with a missing, invalid or expired token are refused; an
\* order without an owner is returned to everyone who names its number.
C29_OnlyTheOwnerReads ==
    [][(lastRoute' # lastRoute /\ lastRoute'.route = "get") =>
          LET k == FindOrder(lastRoute'.num)
              t == lastRoute'.token
          IN /\ k = 0 => lastRoute'.resp = "404 Order not found"
             /\ (k # 0 /\ orders[k].user = NULL) => lastRoute'.resp = "200 OK"
             /\ (k # 0 /\ orders[k].user # NULL) =>
                   (lastRoute'.resp = "200 OK" <=>
                       t = [kind |-> "valid", userId |-> orders[k].user])]_vars

(***************************************************************************)
(* Properties of the reviews, continued.                                   *)
(***************************************************************************)
\* C27: whenever no review request is in progress, every product's
\* reviewCount is the number of its reviews that are approved and its rating
\* is their mean rounded to one decimal place (0 and 0 when it has none),
\* also after an approved review was moderated to 'rejected'.
C27_RatingFollowsApproved ==
    ReviewCallsInFlight = 0 =>
        \A p \in ProductIds :
            LET ks == Approved(p)
                n == Cardinality(ks)
            IN /\ reviewCount[p] = n
               /\ rating[p] = IF n = 0 THEN 0
                              ELSE (20 * RatingSum(ks) + n) \div (2 * n)

====
